---- MODULE Spec2Model ----
(***************************************************************************)
(* Model of the threshold strategy (src/strats/thresh.py): the tick loop,  *)
(* the cooldown gate, the buy/sell/hold decision with its order sizing,    *)
(* place_order, retrieve_assets and the per-symbol JSON file.              *)
(*                                                                         *)
(* Units.  Money is counted in cents.  Share quantities are counted in     *)
(* 1/QtyScale shares.  Thresholds are counted in 1/ThreshScale.  Python    *)
(* float arithmetic is modelled by exact rationals [num, den] (den > 0,    *)
(* lowest terms); a float division by zero raises ZeroDivisionError and is *)
(* modelled by the outcome "raise".  Time is counted in whole seconds.     *)
(***************************************************************************)
EXTENDS Integers, Sequences, FiniteSets, TLC

VARIABLES
    cfg,        \* the strategy globals base_buy, thresh_buy, thresh_sell, order_cooldown
    now,        \* the wall clock, datetime.now().timestamp()
    disk,       \* work directory: symbol -> NotFound | Malformed | JSON document
    pc,         \* per tick invocation: "idle" | "retrieve" | "decide"
    idx,        \* per tick invocation: position of the running loop in the symbol list
    assets,     \* per tick invocation: the AssetGroup returned by get_assets
    adata,      \* per tick invocation: the AssetData list built by retrieve_assets
    ret,        \* per tick invocation: how the last tick ended (result or exception)
    orders,     \* per tick invocation: the orders handed to send_order in this tick
    decisions,  \* per tick invocation: the branch tick took for each asset so far
    fileOps,    \* per tick invocation: asset-file reads and writes done in this tick
    market,     \* per tick invocation: what get_market_status reported
    fills,      \* history: per symbol, timestamps of every fill place_order recorded
    ioFailed,   \* history: some asset-file load or save has failed
    faultsLeft, \* environment: asset-file faults that may still happen
    ticks,      \* history: number of ticks started so far
    overlap     \* scheduler: TRUE when ticks may overlap, FALSE when they are serial

vars == <<cfg, now, disk, pc, idx, assets, adata, ret, orders, decisions,
          fileOps, market, fills, ioFailed, faultsLeft, ticks, overlap>>

(***************************************************************************)
(* Bounds of the model.                                                    *)
(***************************************************************************)
MaxTicks == 2        \* ticks started in one behaviour
MaxTime == 2         \* the clock stops advancing here
MaxFaults == 1       \* asset-file faults in one behaviour of SpecIO

(***************************************************************************)
(* Program constants and scales.                                           *)
(***************************************************************************)
QtyScale == 10000       \* quantity 1.0 (the PriceDataPoint default) in model units
ThreshScale == 100      \* threshold 1.0 in model units
Cent == 100             \* $1.00 in cents: the bootstrap buy, the buy floor, the sell residual
ModeUnknown == -1       \* AssetMode.UNKNOWN.value

Procs == {1, 2}
Symbols == <<"A", "B">>
NSym == Len(Symbols)

\* Python None, a file that does not exist, a file whose content is not a parsable document
None == [none |-> TRUE]
NotFound == [file |-> "NotFound"]
Malformed == [file |-> "Malformed"]

(***************************************************************************)
(* Exact rationals standing for Python floats.                             *)
(***************************************************************************)
Abs(x) == IF x < 0 THEN -x ELSE x

RECURSIVE GCD(_, _)
GCD(a, b) == IF b = 0 THEN a ELSE GCD(b, a % b)

Rat(n, d) ==
    LET g == GCD(Abs(n), Abs(d))
        s == IF d < 0 THEN -1 ELSE 1
    IN  [num |-> (s * n) \div g, den |-> (s * d) \div g]

RInt(n) == [num |-> n, den |-> 1]
RAdd(a, b) == Rat(a.num * b.den + b.num * a.den, a.den * b.den)
RSub(a, b) == Rat(a.num * b.den - b.num * a.den, a.den * b.den)
RMul(a, b) == Rat(a.num * b.num, a.den * b.den)
\* a / b for b # 0; the caller models b = 0 as ZeroDivisionError
RDiv(a, b) == Rat(a.num * b.den, a.den * b.num)
RLe(a, b) == a.num * b.den <= b.num * a.den
RLt(a, b) == a.num * b.den < b.num * a.den
REq(a, b) == a.num * b.den = b.num * a.den
RMax(a, b) == IF RLe(a, b) THEN b ELSE a
RMin(a, b) == IF RLe(a, b) THEN a ELSE b
RZero == RInt(0)

\* round(x, 2) of a float x counted in cents: the nearest whole cent.  A value
\* written exactly halfway between two cents is not representable in binary,
\* so the float lies on one side or the other: tieUp says which.
Round2(x, tieUp) ==
    LET lo == x.num \div x.den
        twice == 2 * (x.num - lo * x.den)
    IN  IF twice < x.den THEN lo
        ELSE IF twice > x.den THEN lo + 1
        ELSE IF tieUp THEN lo + 1 ELSE lo

(***************************************************************************)
(* PriceDataPoint and Asset (sbi/asset.py).                                *)
(***************************************************************************)
PDP(price, timestamp, quantity) ==
    [price |-> price, timestamp |-> timestamp, quantity |-> quantity]

\* PriceDataPoint.value(): price x quantity
Value(pdp) == (pdp.price * pdp.quantity) \div QtyScale

\* PriceDataPoint.timestamp_total_seconds()
timestamp_total_seconds(pdp) == pdp.timestamp

\* Asset(symbol, name, quantity): a new asset has no price history
Asset(symbol, name, quantity) ==
    [symbol |-> symbol, name |-> name, quantity |-> quantity, phistory |-> <<>>]

phistory_append(a, pdp) == [a EXCEPT !.phistory = Append(@, pdp)]

phistory_latest(a) ==
    IF Len(a.phistory) = 0 THEN None ELSE a.phistory[Len(a.phistory)]

phistory_min(a) ==
    IF Len(a.phistory) = 0 THEN None
    ELSE CHOOSE x \in {a.phistory[i] : i \in 1..Len(a.phistory)} :
            \A i \in 1..Len(a.phistory) : Value(x) <= Value(a.phistory[i])

phistory_max(a) ==
    IF Len(a.phistory) = 0 THEN None
    ELSE CHOOSE x \in {a.phistory[i] : i \in 1..Len(a.phistory)} :
            \A i \in 1..Len(a.phistory) : Value(x) >= Value(a.phistory[i])

(***************************************************************************)
(* AssetData (thresh.py).                                                  *)
(***************************************************************************)
AssetData(a) == [asset |-> a, mode |-> "UNKNOWN", thistory |-> <<>>]

thistory_append(ad, pdp) == [ad EXCEPT !.thistory = Append(@, pdp)]

thistory_latest(ad) ==
    IF Len(ad.thistory) = 0 THEN None ELSE ad.thistory[Len(ad.thistory)]

(***************************************************************************)
(* TStrat.tick: what the loop body decides for one AssetData `ad` under    *)
(* the globals `c` when the clock reads `t` (thresh.py lines 186-294).     *)
(* The result names the branch taken (kind) and, when the branch calls     *)
(* place_order, the TradeOrder it builds.                                  *)
(***************************************************************************)
Half == Rat(1, 2)
One == RInt(1)

TradeOrder(symbol, action, amount) ==
    [symbol |-> symbol, action |-> action, amount |-> amount]

NoOrder == [none |-> TRUE]
Outcome(kind, order) == [kind |-> kind, order |-> order, exc |-> "none"]
\* the iteration ends in an uncaught exception
Raises(exc) == [kind |-> "raise", order |-> NoOrder, exc |-> exc]

\* the comparison of line 211 inverted
InCooldown_Inverted(c, ad, t) ==
    LET ltran == thistory_latest(ad)
    IN  /\ ltran # None
        /\ t - timestamp_total_seconds(ltran) > c.order_cooldown

\* the comparison of line 211 off by one
InCooldown_Inclusive(c, ad, t) ==
    LET ltran == thistory_latest(ad)
    IN  /\ ltran # None
        /\ t - timestamp_total_seconds(ltran) <= c.order_cooldown

\* lines 205-215: the latest transaction is younger than order_cooldown
InCooldown(c, ad, t) ==
    LET ltran == thistory_latest(ad)
    IN  /\ ltran # None
        /\ t - timestamp_total_seconds(ltran) < c.order_cooldown

\* lines 196, 221-225
NoHistory(ad) ==
    \/ phistory_min(ad.asset) = None
    \/ phistory_max(ad.asset) = None
    \/ phistory_latest(ad.asset) = None

\* the minimum not subtracted from the current value
PercentToMax_FromZero(ad) ==
    LET amin == phistory_min(ad.asset)
        amax == phistory_max(ad.asset)
        acurr == phistory_latest(ad.asset)
    IN  IF NoHistory(ad) THEN RZero
        ELSE IF Value(amax) # Value(amin)
             THEN Rat(Value(acurr), Value(amax) - Value(amin))
             ELSE RZero

\* the flat history taken for the middle of the range
PercentToMax_Midpoint(ad) ==
    LET amin == phistory_min(ad.asset)
        amax == phistory_max(ad.asset)
        acurr == phistory_latest(ad.asset)
    IN  IF NoHistory(ad) THEN RZero
        ELSE IF Value(amax) # Value(amin)
             THEN Rat(Value(acurr) - Value(amin), Value(amax) - Value(amin))
             ELSE Half

PercentToMax(ad) ==
    LET amin == phistory_min(ad.asset)
        amax == phistory_max(ad.asset)
        acurr == phistory_latest(ad.asset)
    IN  IF NoHistory(ad) THEN RZero
        ELSE IF Value(amax) # Value(amin)
             THEN Rat(Value(acurr) - Value(amin), Value(amax) - Value(amin))
             ELSE RZero

\* lines 256, 272
ThreshBuyPercent(c) == RSub(Half, Rat(c.thresh_buy, ThreshScale))
ThreshSellPercent(c) == RAdd(Half, Rat(c.thresh_sell, ThreshScale))

\* line 257 and line 273: the two threshold tests
BelowBuy(c, p) == RLe(p, ThreshBuyPercent(c))
AboveSell(c, p) == RLe(ThreshSellPercent(c), p)

\* percent_to_max divided by thresh_buy instead of thresh_buy_percent
BuyAmount_ByThreshold(c, p) ==
    RMax(RInt(Cent),
         RMul(RSub(One, RDiv(p, Rat(c.thresh_buy, ThreshScale))), RInt(c.base_buy)))

\* lines 260-261 (for thresh_buy_percent # 0)
BuyAmount(c, p) ==
    RMax(RInt(Cent),
         RMul(RSub(One, RDiv(p, ThreshBuyPercent(c))), RInt(c.base_buy)))

\* acurr.value() * ad.asset.quantity, line 279
HeldValue(ad) == Rat(Value(phistory_latest(ad.asset)) * ad.asset.quantity, QtyScale)

\* the deduction of 1.00 of line 280 left out
SellAmount_NoDeduction(c, ad, p, tieUp) ==
    LET tsp == ThreshSellPercent(c)
        multiplier == RDiv(RSub(p, tsp), RSub(One, tsp))
        capped == RMin(HeldValue(ad), RMul(multiplier, RInt(c.base_buy)))
        rounded == Round2(capped, tieUp)
    IN  IF rounded > 0 THEN rounded ELSE 0

\* lines 277-280 (for thresh_sell_percent # 1): the amount in whole cents
SellAmount(c, ad, p, tieUp) ==
    LET tsp == ThreshSellPercent(c)
        multiplier == RDiv(RSub(p, tsp), RSub(One, tsp))
        capped == RMin(HeldValue(ad), RMul(multiplier, RInt(c.base_buy)))
        rounded == Round2(RSub(capped, RInt(Cent)), tieUp)
    IN  IF rounded > 0 THEN rounded ELSE 0

\* lines 243-294, reached once the cooldown gate has let the asset through
Strategy(c, ad, tieUp) ==
    LET p == PercentToMax(ad)
        sym == ad.asset.symbol
    IN  IF ~(ad.asset.quantity > 0)
        THEN IF NoHistory(ad) \/ ad.asset.quantity = 0
             THEN Outcome("bootstrap", TradeOrder(sym, "BUY", RInt(Cent)))
             ELSE Outcome("nothing", NoOrder)
        ELSE IF BelowBuy(c, p)
        THEN IF ThreshBuyPercent(c).num = 0
             THEN Raises("ZeroDivisionError")      \* float division by zero, line 260
             ELSE Outcome("buy", TradeOrder(sym, "BUY", BuyAmount(c, p)))
        ELSE IF AboveSell(c, p)
        THEN IF RSub(One, ThreshSellPercent(c)).num = 0
             THEN Raises("ZeroDivisionError")      \* float division by zero, line 277
             ELSE IF SellAmount(c, ad, p, tieUp) = 0
                  THEN Outcome("suppressed", NoOrder)
                  ELSE Outcome("sell", TradeOrder(sym, "SELL",
                                                  RInt(SellAmount(c, ad, p, tieUp))))
        ELSE Outcome("hold", NoOrder)

\* the mode is read: a held asset in WATCH mode is left alone
Decision_ModeRead(c, ad, t, tieUp) ==
    IF phistory_latest(ad.asset) = None
    THEN Raises("AttributeError")
    ELSE IF InCooldown(c, ad, t)
    THEN Outcome("cooldown", NoOrder)
    ELSE IF ad.mode = "WATCH" /\ ad.asset.quantity > 0
    THEN Outcome("hold", NoOrder)
    ELSE Strategy(c, ad, tieUp)

\* lines 186-294
Decision(c, ad, t, tieUp) ==
    IF phistory_latest(ad.asset) = None
    THEN Raises("AttributeError")                  \* acurr.value() on None, line 199
    ELSE IF InCooldown(c, ad, t)
    THEN Outcome("cooldown", NoOrder)
    ELSE Strategy(c, ad, tieUp)

(***************************************************************************)
(* JSON documents (AssetData.json_make / json_parse) and the asset file    *)
(* (AssetData.save / AssetData.load).                                      *)
(***************************************************************************)
\* AssetMode(Enum): UNKNOWN = -1, WATCH = 0, HOLD = 1
ModeValue(mode) ==
    CASE mode = "UNKNOWN" -> ModeUnknown
      [] mode = "WATCH" -> 0
      [] mode = "HOLD" -> 1

\* AssetMode(value), for the values of the enum
AssetMode(value) ==
    CASE value = ModeUnknown -> "UNKNOWN"
      [] value = 0 -> "WATCH"
      [] value = 1 -> "HOLD"

\* PriceDataPoint.json_make / json_parse: the timestamp is written as a string
pdp_json_make(pdp) ==
    [price |-> pdp.price, timestamp |-> <<"ts", pdp.timestamp>>, quantity |-> pdp.quantity]

pdp_json_parse(j) == PDP(j.price, j.timestamp[2], j.quantity)

SeqMap(Op(_), seq) == [i \in 1..Len(seq) |-> Op(seq[i])]

json_make(ad) ==
    [symbol |-> ad.asset.symbol,
     name |-> ad.asset.name,
     quantity |-> ad.asset.quantity,
     phistory |-> SeqMap(pdp_json_make, ad.asset.phistory),
     mode |-> ModeValue(ad.mode),
     thistory |-> SeqMap(pdp_json_make, ad.thistory)]

\* line 104 left out: the mode of the document is not read
json_parse_ModeUnread(jdata) ==
    [asset |-> [symbol |-> jdata.symbol,
                name |-> jdata.name,
                quantity |-> jdata.quantity,
                phistory |-> SeqMap(pdp_json_parse, jdata.phistory)],
     mode |-> "UNKNOWN",
     thistory |-> SeqMap(pdp_json_parse, jdata.thistory)]

json_parse(jdata) ==
    [asset |-> [symbol |-> jdata.symbol,
                name |-> jdata.name,
                quantity |-> jdata.quantity,
                phistory |-> SeqMap(pdp_json_parse, jdata.phistory)],
     mode |-> AssetMode(jdata.mode),
     thistory |-> SeqMap(pdp_json_parse, jdata.thistory)]

\* AssetData.load: None when the file is missing, unreadable or unparsable
Load(file, readOk) ==
    IF ~readOk \/ file = NotFound \/ file = Malformed THEN None ELSE json_parse(file)

\* The file after AssetData.save: written whole, left alone when open() fails,
\* left truncated when the write fails after open(fpath, "w")
Saved(file, ad, outcome) ==
    CASE outcome = "ok" -> json_make(ad)
      [] outcome = "open_failed" -> file
      [] outcome = "write_failed" -> Malformed

SaveOutcomes(f) == IF f > 0 THEN {"ok", "open_failed", "write_failed"} ELSE {"ok"}
ReadOutcomes(f) == IF f > 0 THEN {TRUE, FALSE} ELSE {TRUE}

(***************************************************************************)
(* Inputs: the configuration file, and what the brokerage API returns.     *)
(***************************************************************************)
SymSet == {Symbols[i] : i \in 1..NSym}

\* config_load: base_buy in cents, thresholds in 1/ThreshScale, cooldown in seconds
Configs ==
    [base_buy : {2000}, thresh_buy : {25}, thresh_sell : {25}, order_cooldown : {2}]

Failed == [failed |-> TRUE]

\* get_market_status
MarketStatuses == {Failed, [open |-> TRUE], [open |-> FALSE]}

\* get_assets: per tracked symbol, not on the account (None), or the quantity held
\* and the latest price with the time of that quote
Account(sym) ==
    IF sym = "A"
    THEN {None} \cup [quantity : {0}, price : {9000}, time : {0}]
                \cup [quantity : {QtyScale}, price : {9000, 11000}, time : {0}]
    ELSE {None} \cup [quantity : {0}, price : {10000}, time : {0}]

AssetGroups == {g \in [SymSet -> UNION {Account(sym) : sym \in SymSet}] :
                    \A sym \in SymSet : g[sym] \in Account(sym)}

\* the Asset the API builds for an account entry: one price point
ApiAsset(sym, entry) ==
    IF entry = None THEN None
    ELSE phistory_append(Asset(sym, sym, entry.quantity),
                         PDP(entry.price, entry.time, QtyScale))

\* send_order: a failure, or the fill (realized value in cents, realized quantity)
Fills == {[value |-> 190, quantity |-> 200], [value |-> 100, quantity |-> 0]}
SendResults == {Failed} \cup Fills

\* seconds that pass inside one send_order call
Delays == {0, 1}

(***************************************************************************)
(* State after construction: no asset file yet, no tick running.           *)
(***************************************************************************)
Idle ==
    /\ now = 0
    /\ pc = [p \in Procs |-> "idle"]
    /\ idx = [p \in Procs |-> 1]
    /\ assets = [p \in Procs |-> [sym \in SymSet |-> None]]
    /\ adata = [p \in Procs |-> <<>>]
    /\ ret = [p \in Procs |-> "none"]
    /\ orders = [p \in Procs |-> <<>>]
    /\ decisions = [p \in Procs |-> <<>>]
    /\ fileOps = [p \in Procs |-> 0]
    /\ market = [p \in Procs |-> None]
    /\ fills = [sym \in SymSet |-> <<>>]
    /\ ioFailed = FALSE
    /\ ticks = 0

Init ==
    /\ cfg \in Configs
    /\ disk = [sym \in SymSet |-> NotFound]
    /\ overlap = FALSE
    /\ faultsLeft = 0
    /\ Idle

(***************************************************************************)
(* Leaving tick: by a return or by an exception.                           *)
(***************************************************************************)
\* tick is left after its loops, by `how`: "success" for return IR(True), else
\* the exception that leaves it.  Its locals are gone; what it logged and the
\* orders it sent (orders, decisions, fileOps) stay on record until the next tick.
Leave(p, how) ==
    /\ pc' = [pc EXCEPT ![p] = "idle"]
    /\ ret' = [ret EXCEPT ![p] = how]
    /\ idx' = [idx EXCEPT ![p] = 1]
    /\ adata' = [adata EXCEPT ![p] = <<>>]
    /\ assets' = [assets EXCEPT ![p] = [sym \in SymSet |-> None]]
    /\ market' = [market EXCEPT ![p] = None]

(***************************************************************************)
(* TStrat.tick, lines 170-182: get_market_status, then retrieve_assets up  *)
(* to get_assets (lines 326-329).                                          *)
(***************************************************************************)
\* a return added to the branch of line 175: a closed market ends the tick
TickEntry_ClosedReturns(status, got) ==
    IF status = Failed THEN "failure"
    ELSE IF status = [open |-> FALSE] THEN "failure"
    ELSE IF got = Failed THEN "failure"
    ELSE "proceed"

\* the check of retrieve_assets' result (lines 180-182) left out
TickEntry_AssetsUnchecked(status, got) ==
    IF status = Failed THEN "failure" ELSE "proceed"

\* "failure" when the tick returns the failed result, "proceed" otherwise
TickEntry(status, got) ==
    IF status = Failed THEN "failure"
    ELSE IF got = Failed THEN "failure"
    ELSE "proceed"

\* get_assets is called only once get_market_status has succeeded
TickStart(p) ==
    /\ pc[p] = "idle"
    /\ ticks < MaxTicks
    /\ overlap \/ (p = 1 /\ \A q \in Procs : pc[q] = "idle")
    /\ \E status \in MarketStatuses, got \in {Failed} \cup AssetGroups :
        /\ status = Failed => got = Failed
        /\ market' = [market EXCEPT ![p] = status]
        /\ assets' = [assets EXCEPT ![p] =
              IF got = Failed THEN Failed
              ELSE [sym \in SymSet |-> ApiAsset(sym, got[sym])]]
        /\ IF TickEntry(status, got) = "failure"
           THEN /\ ret' = [ret EXCEPT ![p] = "failure"]
                /\ pc' = pc
           ELSE /\ ret' = [ret EXCEPT ![p] = "running"]
                /\ pc' = [pc EXCEPT ![p] = "retrieve"]
    /\ idx' = [idx EXCEPT ![p] = 1]
    /\ adata' = [adata EXCEPT ![p] = <<>>]
    /\ orders' = [orders EXCEPT ![p] = <<>>]
    /\ decisions' = [decisions EXCEPT ![p] = <<>>]
    /\ fileOps' = [fileOps EXCEPT ![p] = 0]
    /\ ticks' = ticks + 1
    /\ UNCHANGED <<cfg, now, disk, fills, ioFailed, faultsLeft, overlap>>

(***************************************************************************)
(* TStrat.retrieve_assets, lines 340-362: one iteration of the loop over   *)
(* the symbols: load, merge with the account's asset, save.                *)
(***************************************************************************)
\* assets.search(sym): None when get_assets gave no asset of that symbol
Search(group, sym) == IF group = Failed THEN None ELSE group[sym]

\* what is loaded from the file is dropped: the AssetData is always made anew
Merge_LoadedDropped(sym, ad, a) ==
    IF a = None THEN AssetData(Asset(sym, sym, 0)) ELSE AssetData(a)

\* lines 343-358
Merge(sym, ad, a) ==
    IF a = None
    THEN IF ad = None THEN AssetData(Asset(sym, sym, 0)) ELSE ad
    ELSE IF ad # None
         THEN [ad EXCEPT !.asset =
                 [phistory_append(@, phistory_latest(a)) EXCEPT !.quantity = a.quantity]]
         ELSE AssetData(a)

RetrieveAsset(p) ==
    /\ pc[p] = "retrieve"
    /\ LET sym == Symbols[idx[p]] IN
       \E readOk \in ReadOutcomes(faultsLeft) :
       \E outcome \in SaveOutcomes(IF readOk THEN faultsLeft ELSE faultsLeft - 1) :
        LET ad == Merge(sym, Load(disk[sym], readOk), Search(assets[p], sym)) IN
        /\ adata' = [adata EXCEPT ![p] = Append(@, ad)]
        /\ disk' = [disk EXCEPT ![sym] = Saved(@, ad, outcome)]
        /\ faultsLeft' = faultsLeft - (IF readOk THEN 0 ELSE 1) - (IF outcome = "ok" THEN 0 ELSE 1)
        /\ ioFailed' = (ioFailed \/ ~readOk \/ disk[sym] = Malformed \/ outcome # "ok")
    /\ fileOps' = [fileOps EXCEPT ![p] = @ + 2]
    /\ IF idx[p] < NSym
       THEN /\ idx' = [idx EXCEPT ![p] = @ + 1]
            /\ pc' = pc
       ELSE /\ idx' = [idx EXCEPT ![p] = 1]
            /\ pc' = [pc EXCEPT ![p] = "decide"]
    /\ UNCHANGED <<cfg, now, assets, ret, orders, decisions, market, fills, ticks, overlap>>

(***************************************************************************)
(* TStrat.tick, lines 186-294: one iteration of the loop over the          *)
(* AssetData list, with TStrat.place_order (lines 301-319) when the        *)
(* iteration builds an order.                                              *)
(***************************************************************************)
\* line 314 (for a fill quantity # 0), in cents per share
FillPrice(fill) == (fill.value * QtyScale) \div fill.quantity

\* lines 314-317: the AssetData after the fill is appended at time t
RecordFill(ad, fill, t) ==
    thistory_append(ad, PDP(FillPrice(fill), t, fill.quantity))

Submitted(order, res) ==
    [symbol |-> order.symbol, action |-> order.action, amount |-> order.amount,
     success |-> res # Failed, result |-> res]

\* the branch does not end the asset's iteration: the loop stays on the asset
NextAsset_Stays(p) ==
    UNCHANGED <<idx, pc, ret, assets, market>>

\* the loop moves on to the next AssetData
NextAsset(p) ==
    /\ idx' = [idx EXCEPT ![p] = @ + 1]
    /\ UNCHANGED <<pc, ret, assets, market>>

\* no fill to record: no order built, send_order failed, or an exception
NothingRecorded == UNCHANGED <<disk, fileOps, fills, ioFailed, faultsLeft>>

ProcessAsset(p) ==
    /\ pc[p] = "decide"
    /\ idx[p] <= NSym
    /\ \E tieUp \in BOOLEAN :
        LET i == idx[p]
            ad == adata[p][i]
            sym == ad.asset.symbol
            d == Decision(cfg, ad, now, tieUp)
        IN
        /\ decisions' = [decisions EXCEPT ![p] = Append(@, d.kind)]
        /\ IF d.kind = "raise"
           THEN /\ Leave(p, d.exc)
                /\ UNCHANGED <<now, orders>>
                /\ NothingRecorded
           ELSE IF d.order = NoOrder
           THEN /\ NextAsset(p)
                /\ UNCHANGED <<now, orders, adata>>
                /\ NothingRecorded
           ELSE \E res \in SendResults, delay \in Delays :
                /\ now + delay <= MaxTime
                /\ now' = now + delay
                /\ orders' = [orders EXCEPT ![p] = Append(@, Submitted(d.order, res))]
                /\ IF res = Failed
                   THEN /\ NextAsset(p)
                        /\ UNCHANGED adata
                        /\ NothingRecorded
                   ELSE IF res.quantity = 0
                   THEN /\ Leave(p, "ZeroDivisionError")   \* value / quantity, line 314
                        /\ NothingRecorded
                   ELSE \E outcome \in SaveOutcomes(faultsLeft) :
                        LET ad2 == RecordFill(ad, res, now + delay) IN
                        /\ NextAsset(p)
                        /\ adata' = [adata EXCEPT ![p][i] = ad2]
                        /\ fills' = [fills EXCEPT ![sym] = Append(@, now + delay)]
                        /\ disk' = [disk EXCEPT ![sym] = Saved(@, ad2, outcome)]
                        /\ fileOps' = [fileOps EXCEPT ![p] = @ + 1]
                        /\ faultsLeft' = faultsLeft - (IF outcome = "ok" THEN 0 ELSE 1)
                        /\ ioFailed' = (ioFailed \/ outcome # "ok")
    /\ UNCHANGED <<cfg, ticks, overlap>>

\* lines 296-297: the loop is over, tick returns IR(True)
TickReturn(p) ==
    /\ pc[p] = "decide"
    /\ idx[p] > NSym
    /\ Leave(p, "success")
    /\ UNCHANGED <<cfg, now, disk, orders, decisions, fileOps, fills, ioFailed,
                   faultsLeft, ticks, overlap>>

\* time passes between ticks (inside a tick it passes in send_order)
AdvanceClock ==
    /\ now < MaxTime
    /\ ticks > 0
    /\ \A q \in Procs : pc[q] = "idle"
    /\ now' = now + 1
    /\ UNCHANGED <<cfg, disk, pc, idx, assets, adata, ret, orders, decisions,
                   fileOps, market, fills, ioFailed, faultsLeft, ticks, overlap>>

Next ==
    \/ \E p \in Procs : TickStart(p)
    \/ \E p \in Procs : RetrieveAsset(p)
    \/ \E p \in Procs : ProcessAsset(p)
    \/ \E p \in Procs : TickReturn(p)
    \/ AdvanceClock

Spec == Init /\ [][Next]_vars

\* the same program where asset-file reads and writes may fail
InitIO ==
    /\ cfg \in Configs
    /\ disk = [sym \in SymSet |-> NotFound]
    /\ overlap = FALSE
    /\ faultsLeft = MaxFaults
    /\ Idle

SpecIO == InitIO /\ [][Next]_vars

(***************************************************************************)
(* The decision of tick's loop body as a function of its inputs: tick 1    *)
(* has run retrieve_assets and is about to walk the AssetData list.  The   *)
(* configuration, the history of asset A, its quantity, its latest         *)
(* transaction and the clock are drawn from the sets below; each AssetData *)
(* is what earlier ticks leave behind (price points appended one per tick, *)
(* one fill recorded at time 0), and the files hold what retrieve_assets   *)
(* has just saved.                                                         *)
(***************************************************************************)
DecideConfigs ==
    [base_buy : {50, 2000}, thresh_buy : {1, 25, 50, 60}, thresh_sell : {1, 25, 50},
     order_cooldown : {2}]

\* price histories of A: none, one point, or a 9000..11000 range and a latest point
DecidePrices == {9000, 9100, 9500, 10000, 10500, 11000}
DecideHistories ==
    {<<>>} \cup {<<PDP(c, 0, QtyScale)>> : c \in DecidePrices}
           \cup {<<PDP(9000, 0, QtyScale), PDP(11000, 0, QtyScale), PDP(c, 0, QtyScale)>> :
                    c \in DecidePrices}

\* 0, 0.005, 0.0105, 0.0437 and 1 share
DecideQuantities == {0, 50, 105, 437, QtyScale}

\* no transaction yet, or one fill recorded at time 0
DecideTransactions == {<<>>, <<PDP(9500, 0, 200)>>}

DecideTimes == {1, 2}

DecideAssetData(sym, quantity, phistory, thistory) ==
    [asset |-> [symbol |-> sym, name |-> sym, quantity |-> quantity, phistory |-> phistory],
     mode |-> "UNKNOWN",
     thistory |-> thistory]

InitDecide ==
    /\ cfg \in DecideConfigs
    /\ now \in DecideTimes
    /\ \E quantity \in DecideQuantities, phistory \in DecideHistories,
          thistory \in DecideTransactions :
        LET adA == DecideAssetData("A", quantity, phistory, thistory)
            adB == DecideAssetData("B", 0, <<PDP(10000, 0, QtyScale)>>, <<>>)
        IN  /\ thistory # <<>> => phistory # <<>>
            /\ adata = [p \in Procs |-> IF p = 1 THEN <<adA, adB>> ELSE <<>>]
            /\ disk = [sym \in SymSet |-> json_make(IF sym = "A" THEN adA ELSE adB)]
            /\ assets = [p \in Procs |-> [sym \in SymSet |->
                  IF p = 1 /\ (sym = "B" \/ phistory # <<>>)
                  THEN LET ad == IF sym = "A" THEN adA ELSE adB
                       IN  [ad.asset EXCEPT !.phistory = <<phistory_latest(ad.asset)>>]
                  ELSE None]]
            /\ fills = [sym \in SymSet |->
                  IF sym = "A" THEN [i \in 1..Len(thistory) |-> thistory[i].timestamp]
                  ELSE <<>>]
    /\ pc = [p \in Procs |-> IF p = 1 THEN "decide" ELSE "idle"]
    /\ idx = [p \in Procs |-> 1]
    /\ ret = [p \in Procs |-> IF p = 1 THEN "running" ELSE "none"]
    /\ orders = [p \in Procs |-> <<>>]
    /\ decisions = [p \in Procs |-> <<>>]
    /\ fileOps = [p \in Procs |-> IF p = 1 THEN 2 * NSym ELSE 0]
    /\ market = [p \in Procs |-> IF p = 1 THEN [open |-> TRUE] ELSE None]
    /\ ioFailed = FALSE
    /\ faultsLeft = 0
    /\ ticks = 1
    /\ overlap = FALSE

NextDecide ==
    \/ \E p \in Procs : ProcessAsset(p)
    \/ \E p \in Procs : TickReturn(p)

SpecDecide == InitDecide /\ [][NextDecide]_vars

(***************************************************************************)
(* Vocabulary of the properties.                                           *)
(***************************************************************************)
Last(seq) == seq[Len(seq)]

\* invocation p runs one iteration of tick's loop over the AssetData list
Iterates(p) ==
    /\ pc[p] = "decide"
    /\ idx[p] <= NSym
    /\ idx'[p] = idx[p] + 1 \/ pc'[p] = "idle"

\* the AssetData that iteration works on
Current(p) == adata[p][idx[p]]

\* the iteration has handed one order to send_order
Sends(p) == Len(orders'[p]) = Len(orders[p]) + 1

\* seconds since the latest recorded transaction of ad, read off the record
SinceLatest(ad) == now - ad.thistory[Len(ad.thistory)].timestamp

PastCooldown(ad) ==
    Len(ad.thistory) = 0 \/ SinceLatest(ad) >= cfg.order_cooldown

HasHistory(ad) == Len(ad.asset.phistory) > 0

\* successive entries of a sequence of timestamps are at least d apart
Spaced(ts, d) == \A i \in 1..(Len(ts) - 1) : ts[i + 1] - ts[i] >= d

IsDocument(file) == file # NotFound /\ file # Malformed

(***************************************************************************)
(* C1.  With serial ticks and every asset-file load and save succeeding,   *)
(* any two successive fills recorded for one asset (by place_order, and in *)
(* the transaction history of its file) are at least order_cooldown        *)
(* seconds apart.                                                          *)
(***************************************************************************)
C1_FillsCooldownApart ==
    (~overlap /\ ~ioFailed) =>
        \A sym \in SymSet :
            /\ Spaced(fills[sym], cfg.order_cooldown)
            /\ IsDocument(disk[sym]) =>
                 Spaced([i \in 1..Len(disk[sym].thistory) |->
                            disk[sym].thistory[i].timestamp[2]], cfg.order_cooldown)

\* an asset whose file holds two recorded fills
C1_Witness ==
    \E sym \in SymSet :
        /\ Len(fills[sym]) >= 2
        /\ IsDocument(disk[sym])
        /\ Len(disk[sym].thistory) >= 2

(***************************************************************************)
(* C2.  An iteration of tick on an asset with a transaction history: when  *)
(* the latest transaction is younger than order_cooldown, no order is      *)
(* sent, the transaction history and the file stay as they are and the     *)
(* loop moves on; when it is order_cooldown old or older, the iteration is *)
(* not ended by the cooldown gate.                                         *)
(***************************************************************************)
C2_CooldownGate ==
    [][\A p \in Procs :
        (Iterates(p) /\ Len(Current(p).thistory) > 0) =>
            IF SinceLatest(Current(p)) < cfg.order_cooldown
            THEN /\ orders'[p] = orders[p]
                 /\ adata'[p] = adata[p]
                 /\ disk' = disk
                 /\ fills' = fills
                 /\ pc'[p] = "decide"
                 /\ Last(decisions'[p]) = "cooldown"
            ELSE Last(decisions'[p]) # "cooldown"]_vars

\* the gate has just stopped an asset whose transaction is order_cooldown - 1 old
C2_Witness ==
    \E p \in Procs :
        /\ pc[p] = "decide"
        /\ Len(decisions[p]) >= 1
        /\ Last(decisions[p]) = "cooldown"
        /\ SinceLatest(adata[p][Len(decisions[p])]) = cfg.order_cooldown - 1

(***************************************************************************)
(* C3.  An iteration of tick on an asset with a price history, a positive  *)
(* quantity and no cooldown in force takes exactly one of three ways, the  *)
(* boundaries included: percent_to_max <= 0.5 - thresh_buy sends a BUY;    *)
(* else percent_to_max >= 0.5 + thresh_sell goes the SELL way (an order,   *)
(* or none when its amount comes to nothing); else nothing is sent.        *)
(***************************************************************************)
C3_ThreeWayDecision ==
    [][\A p \in Procs :
        (/\ Iterates(p)
         /\ HasHistory(Current(p))
         /\ Current(p).asset.quantity > 0
         /\ PastCooldown(Current(p))) =>
            LET ptm == PercentToMax(Current(p))
                kind == Last(decisions'[p])
            IN  IF RLe(ptm, RSub(Half, Rat(cfg.thresh_buy, ThreshScale)))
                THEN /\ kind = "buy"
                     /\ Sends(p)
                     /\ Last(orders'[p]).action = "BUY"
                ELSE IF RLe(RAdd(Half, Rat(cfg.thresh_sell, ThreshScale)), ptm)
                THEN /\ kind \in {"sell", "suppressed"}
                     /\ kind = "sell" => (Sends(p) /\ Last(orders'[p]).action = "SELL")
                     /\ kind = "suppressed" => orders'[p] = orders[p]
                ELSE /\ kind = "hold"
                     /\ orders'[p] = orders[p]]_vars

(***************************************************************************)
(* C4.  An iteration of tick on a tracked asset whose quantity is 0 always *)
(* sends a BUY of exactly 1.00, whatever the thresholds and the price.     *)
(***************************************************************************)
C4_BootstrapBuy ==
    [][\A p \in Procs :
        (Iterates(p) /\ Current(p).asset.quantity = 0) =>
            /\ Sends(p)
            /\ Last(orders'[p]).symbol = Current(p).asset.symbol
            /\ Last(orders'[p]).action = "BUY"
            /\ Last(orders'[p]).amount = RInt(Cent)]_vars

(***************************************************************************)
(* C8.  When send_order succeeds, place_order appends exactly one entry to *)
(* the asset's transaction history, with price = value / quantity of the   *)
(* fill, the fill's quantity and the current time, and saves the asset's   *)
(* file with it.                                                           *)
(***************************************************************************)
C8_FillRecorded ==
    [][\A p \in Procs :
        (Iterates(p) /\ Sends(p) /\ Last(orders'[p]).success) =>
            /\ pc'[p] = "decide"
            /\ LET ad == Current(p)
                   after == adata'[p][idx[p]]
                   fill == Last(orders'[p]).result
               IN  /\ Len(after.thistory) = Len(ad.thistory) + 1
                   /\ SubSeq(after.thistory, 1, Len(ad.thistory)) = ad.thistory
                   /\ Last(after.thistory).price = (fill.value * QtyScale) \div fill.quantity
                   /\ Last(after.thistory).quantity = fill.quantity
                   /\ Last(after.thistory).timestamp = now'
                   /\ disk'[ad.asset.symbol] = json_make(after)]_vars

(***************************************************************************)
(* C9.  When send_order fails nothing is appended, nothing is saved and    *)
(* the order is not sent again; the tick goes on with the remaining assets *)
(* and still returns success.                                              *)
(***************************************************************************)
C9_FailedOrderTickSucceeds ==
    [][\A p \in Procs :
        /\ (Iterates(p) /\ Sends(p) /\ ~Last(orders'[p]).success) =>
              /\ adata'[p] = adata[p]
              /\ disk' = disk
              /\ fills' = fills
              /\ fileOps'[p] = fileOps[p]
              /\ pc'[p] = "decide"
              /\ idx'[p] = idx[p] + 1
        /\ (/\ pc[p] = "decide"
            /\ pc'[p] = "idle"
            /\ \E k \in 1..Len(orders'[p]) : ~orders'[p][k].success) =>
              ret'[p] = "success"]_vars

(***************************************************************************)
(* C10.  When get_market_status or get_assets fails, tick returns failure  *)
(* at once: no order is placed, no asset file is read or written and no    *)
(* history changes.                                                        *)
(***************************************************************************)
C10_ApiFailureAbortsTick ==
    [][\A p \in Procs :
        (/\ pc[p] = "idle"
         /\ ticks' = ticks + 1
         /\ market'[p] = Failed \/ assets'[p] = Failed) =>
            /\ pc'[p] = "idle"
            /\ ret'[p] = "failure"
            /\ orders'[p] = <<>>
            /\ fileOps'[p] = 0
            /\ disk' = disk
            /\ fills' = fills]_vars

\* a tick that failed in get_assets, with an asset file on disk from an earlier tick
C10_Witness ==
    \E p \in Procs :
        /\ ret[p] = "failure"
        /\ market[p] # Failed
        /\ assets[p] = Failed
        /\ \E sym \in SymSet : IsDocument(disk[sym])

(***************************************************************************)
(* C5 as stated.  Every SELL order has an amount above 0 and at most the   *)
(* held value of the asset minus 1.00.                                     *)
(***************************************************************************)
C5_SellAtMostHeldMinusOne ==
    [][\A p \in Procs :
        (Iterates(p) /\ Sends(p) /\ Last(orders'[p]).action = "SELL") =>
            LET held == HeldValue(Current(p))
                amount == Last(orders'[p]).amount
            IN  /\ RLt(RZero, amount)
                /\ RLe(amount, RSub(held, RInt(Cent)))]_vars

(***************************************************************************)
(* C5.  Every SELL order has an amount of whole cents above 0 that exceeds *)
(* the held value minus 1.00 by no more than the half cent of rounding,    *)
(* and so stays below the held value; and when the amount after the        *)
(* deduction rounds to 0 or less, no order is sent.                        *)
(***************************************************************************)
C5_SellLeavesPosition ==
    [][\A p \in Procs :
        Iterates(p) =>
            LET held == HeldValue(Current(p))
                amount == Last(orders'[p]).amount
            IN  /\ (Sends(p) /\ Last(orders'[p]).action = "SELL") =>
                      /\ amount.den = 1
                      /\ amount.num > 0
                      /\ RLe(RSub(amount, RSub(held, RInt(Cent))), Half)
                      /\ RLt(amount, held)
                /\ Last(decisions'[p]) \in {"sell", "suppressed"} =>
                      LET tsp == ThreshSellPercent(cfg)
                          multiplier == RDiv(RSub(PercentToMax(Current(p)), tsp),
                                             RSub(One, tsp))
                          capped == RMin(held, RMul(multiplier, RInt(cfg.base_buy)))
                      IN  RLe(RSub(capped, RInt(Cent)), RZero) => orders'[p] = orders[p]
                /\ Last(decisions'[p]) = "suppressed" => orders'[p] = orders[p]]_vars

\* a SELL of 3.81 sent for a position worth 4.807: more than the 3.807 left
\* after the deduction, less than the position
C5_Witness ==
    \E p \in Procs :
        /\ pc[p] = "decide"
        /\ Len(orders[p]) >= 1
        /\ orders[p][1].action = "SELL"
        /\ RLt(RSub(HeldValue(adata[p][1]), RInt(Cent)), orders[p][1].amount)

(***************************************************************************)
(* C6.  Whenever the BUY test passes for a held asset that is not cooling  *)
(* down, a BUY is sent whose amount is at least 1.00 and at most           *)
(* max(1.00, base_buy): the sizing is defined for every configuration      *)
(* with which the test can pass, thresh_buy = 0.5 included.                *)
(***************************************************************************)
C6_BuySizingDefined ==
    [][\A p \in Procs :
        (/\ Iterates(p)
         /\ HasHistory(Current(p))
         /\ Current(p).asset.quantity > 0
         /\ PastCooldown(Current(p))
         /\ BelowBuy(cfg, PercentToMax(Current(p)))) =>
            /\ Sends(p)
            /\ Last(orders'[p]).action = "BUY"
            /\ RLe(RInt(Cent), Last(orders'[p]).amount)
            /\ RLe(Last(orders'[p]).amount, RMax(RInt(Cent), RInt(cfg.base_buy)))]_vars

\* every value of the lowest and highest price points of the history is the same
Flat(ad) ==
    /\ HasHistory(ad)
    /\ \A i, j \in 1..Len(ad.asset.phistory) :
          Value(ad.asset.phistory[i]) = Value(ad.asset.phistory[j])

(***************************************************************************)
(* C7 as stated.  A held asset whose lowest and highest prices are equal   *)
(* gets neither a BUY nor a SELL, for thresholds above 0.                  *)
(***************************************************************************)
C7_FlatHistoryHolds ==
    [][\A p \in Procs :
        (/\ Iterates(p)
         /\ Flat(Current(p))
         /\ Current(p).asset.quantity > 0
         /\ PastCooldown(Current(p))
         /\ cfg.thresh_buy > 0
         /\ cfg.thresh_sell > 0) =>
            /\ Last(decisions'[p]) = "hold"
            /\ orders'[p] = orders[p]]_vars

(***************************************************************************)
(* C7.  A held asset whose lowest and highest prices are equal has         *)
(* percent_to_max 0.0, with no division by zero in the ratio.  For         *)
(* thresholds above 0 it never gets a SELL; with thresh_buy below 0.5 it   *)
(* gets a BUY of max(1.00, base_buy); with thresh_buy above 0.5 it gets no *)
(* order.                                                                  *)
(***************************************************************************)
C7_FlatHistoryBuys ==
    [][\A p \in Procs :
        (/\ Iterates(p)
         /\ Flat(Current(p))
         /\ Current(p).asset.quantity > 0
         /\ PastCooldown(Current(p))
         /\ cfg.thresh_buy > 0
         /\ cfg.thresh_sell > 0) =>
            LET kind == Last(decisions'[p])
            IN  /\ PercentToMax(Current(p)) = RZero
                /\ kind \notin {"sell", "suppressed"}
                /\ ~(Sends(p) /\ Last(orders'[p]).action = "SELL")
                /\ 2 * cfg.thresh_buy < ThreshScale =>
                      /\ kind = "buy"
                      /\ Sends(p)
                      /\ Last(orders'[p]).action = "BUY"
                      /\ Last(orders'[p]).amount = RMax(RInt(Cent), RInt(cfg.base_buy))
                /\ 2 * cfg.thresh_buy > ThreshScale =>
                      /\ kind = "hold"
                      /\ orders'[p] = orders[p]]_vars

\* a held asset with a single price point has been sent a BUY of base_buy
C7_Witness ==
    \E p \in Procs :
        /\ pc[p] = "decide"
        /\ Len(orders[p]) >= 1
        /\ orders[p][1].action = "BUY"
        /\ orders[p][1].symbol = adata[p][1].asset.symbol
        /\ Flat(adata[p][1])
        /\ adata[p][1].asset.quantity > 0
        /\ orders[p][1].amount = RInt(cfg.base_buy)

\* invocation p runs one iteration of retrieve_assets' loop over the symbols
Retrieves(p) ==
    /\ pc[p] = "retrieve"
    /\ fileOps'[p] = fileOps[p] + 2

\* on that iteration AssetData.load fails on a file that exists: the file is
\* malformed, or it cannot be read and the AssetData built is not the one in it
LoadFails(p) ==
    LET sym == Symbols[idx[p]]
    IN  \/ disk[sym] = Malformed
        \/ /\ IsDocument(disk[sym])
           /\ Last(adata'[p]) # Merge(sym, json_parse(disk[sym]), Search(assets[p], sym))

\* on that iteration AssetData.save fails: the file does not hold the AssetData
SaveFails(p) == disk'[Symbols[idx[p]]] # json_make(Last(adata'[p]))

(***************************************************************************)
(* C11.  An asset whose file fails to load or to save during a tick is     *)
(* skipped for that tick: retrieve_assets does not hand it to the loop of  *)
(* tick, and tick takes no decision and sends no order for an asset whose  *)
(* file the tick has left unwritten.                                       *)
(***************************************************************************)
C11_FaultyAssetSkipped ==
    [][\A p \in Procs :
        /\ (Retrieves(p) /\ (LoadFails(p) \/ SaveFails(p))) => adata'[p] = adata[p]
        /\ (Iterates(p) /\ disk[Current(p).asset.symbol] = Malformed) =>
              /\ decisions'[p] = decisions[p]
              /\ orders'[p] = orders[p]]_vars

(***************************************************************************)
(* C12.  No invocation of tick ends in an exception: whatever the account, *)
(* the asset files and the fills, a tick that has ended has returned the   *)
(* success value or a tagged failure.                                      *)
(***************************************************************************)
C12_NoUncaughtException ==
    \A p \in Procs : ret[p] \in {"none", "running", "success", "failure"}

(***************************************************************************)
(* C13.  An iteration of tick on an asset with no recorded price history   *)
(* sends the BUY of 1.00 for it and goes on to the next asset.             *)
(***************************************************************************)
C13_NoHistoryBootstrap ==
    [][\A p \in Procs :
        (Iterates(p) /\ ~HasHistory(Current(p)) /\ PastCooldown(Current(p))) =>
            /\ Sends(p)
            /\ Last(orders'[p]) =
                 Submitted(TradeOrder(Current(p).asset.symbol, "BUY", RInt(Cent)),
                           Last(orders'[p]).result)
            /\ pc'[p] = "decide"
            /\ idx'[p] = idx[p] + 1]_vars

(***************************************************************************)
(* C14.  After an iteration of retrieve_assets the quantity of the         *)
(* AssetData it returns, and of the file it writes, is the quantity the    *)
(* account reports for the symbol, and 0 when the account does not hold    *)
(* the symbol, whatever quantity the file held before.                     *)
(***************************************************************************)
C14_QuantityRefreshed ==
    [][\A p \in Procs :
        Retrieves(p) =>
            LET sym == Symbols[idx[p]]
                a == Search(assets[p], sym)
                reported == IF a = None THEN 0 ELSE a.quantity
            IN  /\ Last(adata'[p]).asset.quantity = reported
                /\ IsDocument(disk'[sym]) => disk'[sym].quantity = reported]_vars

(***************************************************************************)
(* AssetData.save followed by AssetData.load, on AssetData of every mode:  *)
(* an AssetData is drawn from the sets below, saved to its file and loaded *)
(* back.                                                                   *)
(***************************************************************************)
FileModes == {"UNKNOWN", "WATCH", "HOLD"}
FileQuantities == {0, 437, QtyScale}
FilePriceHistories ==
    {<<>>, <<PDP(10000, 0, QtyScale)>>,
     <<PDP(9000, 0, QtyScale), PDP(11000, 1, QtyScale), PDP(9100, 2, QtyScale)>>}
FileTransactions ==
    {<<>>, <<PDP(9500, 0, 200)>>, <<PDP(9500, 0, 200), PDP(10500, 2, 95)>>}

InitFile ==
    /\ cfg \in Configs
    /\ now = 0
    /\ disk = [sym \in SymSet |-> NotFound]
    /\ pc = [p \in Procs |-> IF p = 1 THEN "made" ELSE "idle"]
    /\ idx = [p \in Procs |-> 1]
    /\ assets = [p \in Procs |-> [sym \in SymSet |-> None]]
    /\ \E sym \in SymSet, mode \in FileModes, quantity \in FileQuantities,
          phistory \in FilePriceHistories, thistory \in FileTransactions :
        adata = [p \in Procs |->
                    IF p = 1
                    THEN <<[DecideAssetData(sym, quantity, phistory, thistory)
                               EXCEPT !.mode = mode]>>
                    ELSE <<>>]
    /\ ret = [p \in Procs |-> "none"]
    /\ orders = [p \in Procs |-> <<>>]
    /\ decisions = [p \in Procs |-> <<>>]
    /\ fileOps = [p \in Procs |-> 0]
    /\ market = [p \in Procs |-> None]
    /\ fills = [sym \in SymSet |-> <<>>]
    /\ ioFailed = FALSE
    /\ faultsLeft = 0
    /\ ticks = 0
    /\ overlap = FALSE

\* ad.save(dpath), lines 117-124
SaveFile ==
    /\ pc[1] = "made"
    /\ LET ad == adata[1][1]
       IN  disk' = [disk EXCEPT ![ad.asset.symbol] = Saved(@, ad, "ok")]
    /\ pc' = [pc EXCEPT ![1] = "saved"]
    /\ fileOps' = [fileOps EXCEPT ![1] = @ + 1]
    /\ UNCHANGED <<cfg, now, idx, assets, adata, ret, orders, decisions, market,
                   fills, ioFailed, faultsLeft, ticks, overlap>>

\* AssetData.load(symbol, dpath), lines 128-143: the result is kept next to the original
LoadFile ==
    /\ pc[1] = "saved"
    /\ adata' = [adata EXCEPT ![1] = Append(@, Load(disk[@[1].asset.symbol], TRUE))]
    /\ pc' = [pc EXCEPT ![1] = "loaded"]
    /\ fileOps' = [fileOps EXCEPT ![1] = @ + 1]
    /\ UNCHANGED <<cfg, now, disk, idx, assets, ret, orders, decisions, market,
                   fills, ioFailed, faultsLeft, ticks, overlap>>

NextFile == SaveFile \/ LoadFile

SpecFile == InitFile /\ [][NextFile]_vars

Unreadable == [file |-> "Unreadable"]
Absent == [absent |-> TRUE]
\* a JSON number, string or boolean (the model keeps a number for each), and a JSON array
JsonValue(type, value) == [type |-> type, value |-> value]
JsonList(items) == [type |-> "list", items |-> items]

\* the globals as the module defines them, lines 29-32
DefaultConfig ==
    [base_buy |-> 2000, thresh_buy |-> 1, thresh_sell |-> 1, order_cooldown |-> 43200]

\* the document of a well-formed configuration file
ConfigDocument(c, syms) ==
    [base_buy |-> JsonValue("float", c.base_buy),
     thresh_buy |-> JsonValue("float", c.thresh_buy),
     thresh_sell |-> JsonValue("float", c.thresh_sell),
     order_cooldown |-> JsonValue("int", c.order_cooldown),
     symbols |-> JsonList(syms)]

ConfigKeys == {"base_buy", "thresh_buy", "thresh_sell", "order_cooldown", "symbols"}

\* what a member is replaced by in a defective file: left out, or of another type
\* (a string, a boolean, 20 for 20.0, 2.0 for an integer)
Wrong(key) ==
    {Absent, JsonValue("str", 0), JsonValue("bool", 1)}
        \cup (IF key = "order_cooldown" THEN {JsonValue("float", 2)} ELSE {JsonValue("int", 20)})

BootConfigs == Configs \cup {[base_buy |-> 50, thresh_buy |-> 25, thresh_sell |-> 25,
                              order_cooldown |-> 1]}

ConfigFiles ==
    {NotFound, Unreadable, Malformed, JsonValue("int", 7), JsonValue("bool", 1),
     JsonList(<<>>), JsonValue("str", 0)}
        \cup {ConfigDocument(c, Symbols) : c \in BootConfigs}
        \cup {ConfigDocument(c, <<>>) : c \in BootConfigs}
        \cup UNION {{[ConfigDocument(c, Symbols) EXCEPT ![k] = w] : w \in Wrong(k)} :
                       c \in Configs, k \in ConfigKeys}

IsObject(jdata) == "base_buy" \in DOMAIN jdata

\* utils.json_check_keys, lines 172-176 of utils.py, for a jdata that supports `in`
json_check_keys(jdata, expected) ==
    \A i \in 1..Len(expected) :
        /\ IsObject(jdata)
        /\ jdata[expected[i][1]] # Absent
        /\ jdata[expected[i][1]].type = expected[i][2]

\* lines 384-386
ConfigExpected ==
    <<<<"base_buy", "float">>, <<"thresh_buy", "float">>, <<"thresh_sell", "float">>,
      <<"order_cooldown", "int">>, <<"symbols", "list">>>>

\* config_load: how it ends, and the globals it leaves behind
config_load(file, globals) ==
    IF file = NotFound \/ file = Unreadable \/ file = Malformed
    THEN [kind |-> "failure", globals |-> globals]             \* lines 370-381
    ELSE IF ~IsObject(file) /\ file.type \in {"int", "float", "bool"}
    THEN [kind |-> "TypeError", globals |-> globals]           \* `key not in jdata`, utils.py line 174
    ELSE IF ~json_check_keys(file, ConfigExpected)
    THEN [kind |-> "failure", globals |-> globals]             \* line 388
    ELSE LET read == [base_buy |-> file.base_buy.value,
                      thresh_buy |-> file.thresh_buy.value,
                      thresh_sell |-> file.thresh_sell.value,
                      order_cooldown |-> file.order_cooldown.value]
         IN  IF Len(file.symbols.items) = 0
             THEN [kind |-> "failure", globals |-> read]       \* line 400, after 391-395
             ELSE [kind |-> "success", globals |-> read]

InitBoot ==
    /\ cfg = DefaultConfig
    /\ now = 0
    /\ \E file \in ConfigFiles :
          disk = [f \in SymSet \cup {"config"} |-> IF f = "config" THEN file ELSE NotFound]
    /\ pc = [p \in Procs |-> IF p = 1 THEN "boot" ELSE "idle"]
    /\ idx = [p \in Procs |-> 1]
    /\ assets = [p \in Procs |-> [sym \in SymSet |-> None]]
    /\ adata = [p \in Procs |-> <<>>]
    /\ ret = [p \in Procs |-> "none"]
    /\ orders = [p \in Procs |-> <<>>]
    /\ decisions = [p \in Procs |-> <<>>]
    /\ fileOps = [p \in Procs |-> 0]
    /\ market = [p \in Procs |-> None]
    /\ fills = [sym \in SymSet |-> <<>>]
    /\ ioFailed = FALSE
    /\ faultsLeft = 0
    /\ ticks = 0
    /\ overlap = FALSE

\* init(dpath, config_fpath): the ticks may start only when it returns success
InitStrategy ==
    /\ pc[1] = "boot"
    /\ LET res == config_load(disk["config"], cfg)
       IN  /\ cfg' = res.globals
           /\ ret' = [ret EXCEPT ![1] = res.kind]
           /\ pc' = [pc EXCEPT ![1] = IF res.kind = "success" THEN "idle" ELSE "stopped"]
    /\ UNCHANGED <<now, disk, idx, assets, adata, orders, decisions, fileOps, market,
                   fills, ioFailed, faultsLeft, ticks, overlap>>

NextBoot == InitStrategy \/ Next

SpecBoot == InitBoot /\ [][NextBoot]_vars

\* the defects of a configuration file: missing, unreadable, not JSON, a member
\* missing or of the wrong type, no symbol
Defective(file) ==
    \/ file \in {NotFound, Unreadable, Malformed}
    \/ ~IsObject(file)
    \/ \E k \in ConfigKeys : file[k] = Absent
    \/ \E k \in {"base_buy", "thresh_buy", "thresh_sell"} : file[k].type # "float"
    \/ file.order_cooldown.type # "int"
    \/ file.symbols.type # "list"
    \/ file.symbols.items = <<>>

(***************************************************************************)
(* C16.  With a defective configuration file config_load returns a failure *)
(* and init returns it; the strategy is not started and no tick runs.      *)
(***************************************************************************)
C16_ConfigDefectFatal ==
    [][(pc[1] = "boot" /\ Defective(disk["config"])) =>
          /\ ret'[1] = "failure"
          /\ pc'[1] = "stopped"
          /\ ticks' = 0]_vars

\* prices below, inside and above the recorded range, for the ratio of lines 224-225
RangePrices == {8000, 9000, 9100, 11000, 12000}

(***************************************************************************)
(* C17.  For every asset with a recorded price history that tick works on, *)
(* the value of the latest price point lies between the values of the      *)
(* lowest and the highest one, and percent_to_max lies in [0, 1]; and for  *)
(* min < max the ratio (current - min) / (max - min) lies in [0, 1]        *)
(* exactly when current lies in [min, max].                                *)
(***************************************************************************)
C17_PercentInUnitRange ==
    /\ \A p \in Procs : \A i \in 1..Len(adata[p]) :
          HasHistory(adata[p][i]) =>
              LET a == adata[p][i].asset
                  ptm == PercentToMax(adata[p][i])
              IN  /\ Value(phistory_min(a)) <= Value(phistory_latest(a))
                  /\ Value(phistory_latest(a)) <= Value(phistory_max(a))
                  /\ RLe(RZero, ptm)
                  /\ RLe(ptm, One)
    /\ \A mn, mx, cur \in RangePrices :
          mn < mx =>
              LET ratio == Rat(cur - mn, mx - mn)
              IN  (RLe(RZero, ratio) /\ RLe(ratio, One)) <=> (mn <= cur /\ cur <= mx)

\* tick has decided on an asset whose price is strictly inside its recorded range
C17_Witness ==
    /\ pc[1] = "decide"
    /\ Len(decisions[1]) >= 1
    /\ HasHistory(adata[1][1])
    /\ RLt(RZero, PercentToMax(adata[1][1]))
    /\ RLt(PercentToMax(adata[1][1]), One)

\* the scenario: base_buy 20.00, thresholds 0.01, a held asset at 91.00 in a
\* recorded range of 90.00 to 110.00, no transaction in the cooldown window
Scenario(p) ==
    /\ Iterates(p)
    /\ cfg.base_buy = 2000
    /\ cfg.thresh_buy = 1
    /\ cfg.thresh_sell = 1
    /\ LET a == Current(p).asset
       IN  /\ a.quantity > 0
           /\ HasHistory(Current(p))
           /\ Value(phistory_min(a)) = 9000
           /\ Value(phistory_max(a)) = 11000
           /\ Value(phistory_latest(a)) = 9100
    /\ PastCooldown(Current(p))

(***************************************************************************)
(* C18 as stated.  In the scenario tick sends a BUY of about 19.39 (to the *)
(* cent: at least 19.38 and at most 19.40).                                *)
(***************************************************************************)
C18_ScenarioBuys1939 ==
    [][\A p \in Procs :
        Scenario(p) =>
            /\ Sends(p)
            /\ Last(orders'[p]).action = "BUY"
            /\ RLe(RInt(1938), Last(orders'[p]).amount)
            /\ RLe(Last(orders'[p]).amount, RInt(1940))]_vars

(***************************************************************************)
(* C18.  In the scenario percent_to_max is 0.05, which is at most 0.49,    *)
(* and tick sends a BUY of (1 - 0.05 / 0.49) x 20 = 880 / 49, about 17.96. *)
(***************************************************************************)
C18_ScenarioBuys1796 ==
    [][\A p \in Procs :
        Scenario(p) =>
            /\ PercentToMax(Current(p)) = Rat(5, 100)
            /\ RLe(PercentToMax(Current(p)), Rat(49, 100))
            /\ Sends(p)
            /\ Last(orders'[p]).symbol = Current(p).asset.symbol
            /\ Last(orders'[p]).action = "BUY"
            /\ Last(orders'[p]).amount = Rat(88000, 49)
            /\ RLt(RInt(1795), Last(orders'[p]).amount)
            /\ RLt(Last(orders'[p]).amount, RInt(1796))]_vars

\* the order of the scenario has been sent
C18_Witness ==
    /\ pc[1] = "decide"
    /\ cfg.base_buy = 2000
    /\ cfg.thresh_buy = 1
    /\ cfg.thresh_sell = 1
    /\ Len(orders[1]) >= 1
    /\ orders[1][1].symbol = "A"
    /\ orders[1][1].action = "BUY"
    /\ Value(phistory_latest(adata[1][1].asset)) = 9100
    /\ Value(phistory_min(adata[1][1].asset)) = 9000
    /\ Value(phistory_max(adata[1][1].asset)) = 11000
    /\ adata[1][1].asset.quantity > 0

Open == [open |-> TRUE]
Closed == [open |-> FALSE]

IsPrefix(s, t) == Len(s) <= Len(t) /\ SubSeq(t, 1, Len(s)) = s

(***************************************************************************)
(* C20.  The histories of an asset's file are append-only: whenever a      *)
(* write replaces the document of the file, the transaction history and    *)
(* the price history it held are prefixes of the ones it holds after, also *)
(* in a tick in which loading the file fails.                              *)
(***************************************************************************)
C20_HistoriesAppendOnly ==
    [][\A sym \in SymSet :
        (IsDocument(disk[sym]) /\ IsDocument(disk'[sym])) =>
            /\ IsPrefix(disk[sym].thistory, disk'[sym].thistory)
            /\ IsPrefix(disk[sym].phistory, disk'[sym].phistory)]_vars

(***************************************************************************)
(* Overlapping ticks.  Two invocations of tick on one work directory share *)
(* the asset files and nothing else, so a step of one invocation ends at   *)
(* each access to a file: the load of retrieve_assets' iteration (line     *)
(* 342) and its save (line 362) are separate steps, and another invocation *)
(* may read or write the file between them.  place_order's save stays in   *)
(* the step of ProcessAsset.                                               *)
(***************************************************************************)
\* lines 342-361: load, merge with the account's asset, append to the list
LoadAsset(p) ==
    /\ pc[p] = "retrieve"
    /\ LET sym == Symbols[idx[p]] IN
       \E readOk \in ReadOutcomes(faultsLeft) :
        /\ adata' = [adata EXCEPT ![p] =
              Append(@, Merge(sym, Load(disk[sym], readOk), Search(assets[p], sym)))]
        /\ faultsLeft' = faultsLeft - (IF readOk THEN 0 ELSE 1)
        /\ ioFailed' = (ioFailed \/ ~readOk \/ disk[sym] = Malformed)
    /\ pc' = [pc EXCEPT ![p] = "save"]
    /\ fileOps' = [fileOps EXCEPT ![p] = @ + 1]
    /\ UNCHANGED <<cfg, now, disk, idx, assets, ret, orders, decisions, market, fills,
                   ticks, overlap>>

\* line 362: the AssetData just appended is written out, its result dropped
SaveAsset(p) ==
    /\ pc[p] = "save"
    /\ LET sym == Symbols[idx[p]] IN
       \E outcome \in SaveOutcomes(faultsLeft) :
        /\ disk' = [disk EXCEPT ![sym] = Saved(@, Last(adata[p]), outcome)]
        /\ faultsLeft' = faultsLeft - (IF outcome = "ok" THEN 0 ELSE 1)
        /\ ioFailed' = (ioFailed \/ outcome # "ok")
    /\ fileOps' = [fileOps EXCEPT ![p] = @ + 1]
    /\ IF idx[p] < NSym
       THEN /\ idx' = [idx EXCEPT ![p] = @ + 1]
            /\ pc' = [pc EXCEPT ![p] = "retrieve"]
       ELSE /\ idx' = [idx EXCEPT ![p] = 1]
            /\ pc' = [pc EXCEPT ![p] = "decide"]
    /\ UNCHANGED <<cfg, now, assets, adata, ret, orders, decisions, market, fills,
                   ticks, overlap>>

\* the scheduler is serial, and then a read or write of a file may fail, or it
\* lets ticks overlap, and then the files are read and written without fault
InitOverlap ==
    /\ cfg \in Configs
    /\ disk = [sym \in SymSet |-> NotFound]
    /\ overlap \in BOOLEAN
    /\ faultsLeft = (IF overlap THEN 0 ELSE MaxFaults)
    /\ Idle

\* lines 170-182, for one kind of answer of the API: the market open, get_assets
\* succeeding, the first symbol on the account with nothing held, so that it
\* gets the minimum BUY of line 250 when the cooldown gate lets it through.
\* Serial ticks find the other symbols on the account in the same way and run
\* to their return; overlapping ticks are followed on the first symbol only:
\* the others are not on the account, and the tick ends at line 199 on the next
\* symbol, after the iteration of the first
OverlapStart(p) ==
    /\ TickStart(p)
    /\ market'[p] = Open
    /\ assets'[p] # Failed
    /\ assets'[p][Symbols[1]] # None
    /\ assets'[p][Symbols[1]].quantity = 0
    /\ \A i \in 2..NSym :
          IF overlap
          THEN assets'[p][Symbols[i]] = None
          ELSE assets'[p][Symbols[i]] # None /\ assets'[p][Symbols[i]].quantity = 0

NextOverlap ==
    \/ \E p \in Procs : OverlapStart(p)
    \/ \E p \in Procs : LoadAsset(p)
    \/ \E p \in Procs : SaveAsset(p)
    \/ \E p \in Procs : ProcessAsset(p)
    \/ \E p \in Procs : TickReturn(p)
    \/ AdvanceClock

SpecOverlap == InitOverlap /\ [][NextOverlap]_vars

\* the file of sym holds a transaction stamped t
OnFile(sym, t) ==
    /\ IsDocument(disk[sym])
    /\ \E i \in 1..Len(disk[sym].thistory) : disk[sym].thistory[i].timestamp[2] = t

\* the tick of invocation p recorded a fill for sym (place_order reached line 317)
FilledBy(p, sym) ==
    \E i \in 1..Len(orders[p]) :
        /\ orders[p][i].symbol = sym
        /\ orders[p][i].success
        /\ orders[p][i].result.quantity # 0

Between == \A q \in Procs : pc[q] = "idle"

SymIndex(sym) == CHOOSE i \in 1..NSym : Symbols[i] = sym

\* an upper bound on the steps a tick still has to take: what is left of the
\* loop of retrieve_assets, of the loop of tick, and the return
Remaining(p) ==
    CASE pc[p] = "idle" -> 0
      [] pc[p] = "retrieve" -> 2 * NSym + 2 - idx[p]
      [] pc[p] = "decide" -> NSym + 2 - idx[p]

\* a running tick has a next step: the loop of retrieve_assets can go on, the
\* loop of tick has an AssetData to work on and send_order can return, and
\* after the last asset tick can return
CanStep(p) ==
    /\ pc[p] = "retrieve" => ENABLED RetrieveAsset(p)
    /\ (pc[p] = "decide" /\ idx[p] <= NSym) =>
          /\ Len(adata[p]) = NSym
          /\ \E delay \in Delays : now + delay <= MaxTime
    /\ (pc[p] = "decide" /\ idx[p] > NSym) => ENABLED TickReturn(p)

(***************************************************************************)
(* C22.  A tick works through the tracked symbols in the order of the      *)
(* configuration: its i-th iteration is on the i-th symbol, makes one      *)
(* decision and hands at most one order to send_order, so the orders of a  *)
(* tick are for different symbols, in configuration order, and at most     *)
(* NSym of them.  Every tick ends (by returning, or by the exception that  *)
(* leaves it): while it runs it always has a next step, and every step     *)
(* lowers the bound Remaining, which is at most 2 * NSym + 1.              *)
(***************************************************************************)
C22_OneOrderPerSymbol ==
    /\ [](\A p \in Procs :
            /\ Len(decisions[p]) <= NSym
            /\ Len(orders[p]) <= Len(decisions[p])
            /\ \A i, j \in 1..Len(orders[p]) :
                  i < j => SymIndex(orders[p][i].symbol) < SymIndex(orders[p][j].symbol)
            /\ CanStep(p)
            /\ Remaining(p) \in 0..(2 * NSym + 1))
    /\ [][\A p \in Procs :
            /\ Iterates(p) =>
                /\ Current(p).asset.symbol = Symbols[idx[p]]
                /\ Len(decisions'[p]) = Len(decisions[p]) + 1
                /\ orders'[p] = orders[p] \/ Sends(p)
                /\ Sends(p) => Last(orders'[p]).symbol = Symbols[idx[p]]
            /\ pc[p] # "idle" => Remaining(p)' < Remaining(p)]_vars

\* a tick over NSym symbols has returned after sending NSym orders
C22_Witness ==
    \E p \in Procs :
        /\ pc[p] = "idle"
        /\ ret[p] = "success"
        /\ Len(orders[p]) = NSym
        /\ \A i \in 1..NSym : orders[p][i].symbol = Symbols[i]


(***************************************************************************)
(* A work directory that already holds the asset files when the strategy   *)
(* is started, left there with the modes the strategy never constructs     *)
(* itself (it only constructs UNKNOWN, line 58): the first symbol's file   *)
(* says HOLD, for a held asset whose price has been low, high and in       *)
(* between; the files of the other symbols say WATCH, for an asset not     *)
(* held.                                                                   *)
(***************************************************************************)
ModeFile(sym, mode, quantity, phistory) ==
    json_make([DecideAssetData(sym, quantity, phistory, <<>>) EXCEPT !.mode = mode])

InitMode ==
    /\ cfg \in Configs
    /\ disk = [sym \in SymSet |->
                 IF sym = Symbols[1]
                 THEN ModeFile(sym, "HOLD", QtyScale,
                               <<PDP(8500, 0, QtyScale), PDP(11000, 0, QtyScale),
                                 PDP(10000, 0, QtyScale)>>)
                 ELSE ModeFile(sym, "WATCH", 0, <<>>)]
    /\ overlap = FALSE
    /\ faultsLeft = 0
    /\ Idle

SpecMode == InitMode /\ [][Next]_vars

(***************************************************************************)
(* C23.  With every load succeeding, the mode of an asset is only carried  *)
(* along: retrieve_assets hands tick the mode that is in the file and      *)
(* writes the same mode back, an iteration of tick (with or without an     *)
(* order and its save) leaves the mode of the AssetData and of the file as *)
(* they are, so no step changes the mode in a file; and the decision of    *)
(* an iteration is the same for all three modes of its AssetData.          *)
(***************************************************************************)
C23_ModeVestigial ==
    /\ [](\A p \in Procs :
            (pc[p] = "decide" /\ idx[p] <= NSym) =>
                \A mode \in FileModes, tieUp \in BOOLEAN :
                    Decision(cfg, [Current(p) EXCEPT !.mode = mode], now, tieUp)
                        = Decision(cfg, Current(p), now, tieUp))
    /\ [][\A sym \in SymSet :
            (IsDocument(disk[sym]) /\ IsDocument(disk'[sym])) =>
                disk'[sym].mode = disk[sym].mode]_vars
    /\ [][\A p \in Procs :
            /\ (Retrieves(p) /\ IsDocument(disk[Symbols[idx[p]]])) =>
                  /\ Last(adata'[p]).mode = AssetMode(disk[Symbols[idx[p]]].mode)
                  /\ disk'[Symbols[idx[p]]].mode = disk[Symbols[idx[p]]].mode
            /\ (Iterates(p) /\ pc'[p] = "decide") =>
                  adata'[p][idx[p]].mode = Current(p).mode]_vars

\* a file that came with mode HOLD has been loaded, its asset got an order, and
\* the file saved with the fill still says HOLD
C23_Witness ==
    \E sym \in SymSet :
        /\ IsDocument(disk[sym])
        /\ disk[sym].mode = ModeValue("HOLD")
        /\ Len(fills[sym]) >= 1
        /\ Len(disk[sym].thistory) >= 1

====
